---- MODULE Spec2Model ----
(***************************************************************************)
(* UK rail dashboard (uk_Rails_DS.py): the cached loader load_data, the    *)
(* filter helper create_interactive_filters and the five tabs of the       *)
(* script, as a state machine.  One step of the machine is one run of the  *)
(* script (Streamlit runs the whole script on every interaction) or one    *)
(* change of the data file by its owner.                                   *)
(***************************************************************************)
EXTENDS Integers, Sequences, FiniteSets, TLC

VARIABLES
    file,      \* the data file at data_path: [exists, rows]
    cache,     \* st.cache_data's entry for load_data(data_path)
    build,     \* the installed libraries' behaviour where the code leaves it open
    sel,       \* the session's widget values, by widget key
    changes,   \* selection changes made in this session
    status,    \* how the last run of the script ended
    df,        \* the script's global df after the last run
    out,       \* what the tabs computed in the last run
    lastLoad   \* whether the last load_data call ran its body ("miss") or not ("hit")

vars == <<file, cache, build, sel, changes, status, df, out, lastLoad>>

----------------------------------------------------------------------------
(* Bounds of the model *)

\* rows of a table for the filters and the aggregations
MaxRows == 2
\* rows of a file that is replaced while the dashboard runs
MaxFileRows == 1
\* rows of a table of prices
MaxPriceRows == 4
\* rows of a table with cells to repair and to parse
MaxLoadRows == 2
\* journeys added to a table with one journey on each route
MaxExtra == 2
\* selection changes in a session
MaxChanges == 2

----------------------------------------------------------------------------
(* Cell values *)

\* pandas' missing value in an object column
NaN == "NaN"

\* the cell texts read_csv turns into a missing value (a part of its default list)
NaTexts == {"", "None", "NaN", "NA", "null"}

\* a date cell: three numbers a, b, c written with the separator sep;
\* sep = "" is the blank cell, which read_csv leaves as a missing value
DateText(sep, a, b, c) == [sep |-> sep, a |-> a, b |-> b, c |-> c]
BlankDate == DateText("", 0, 0, 0)

\* a time-of-day cell: "a:b"; sep = "" is the blank cell
TimeText(sep, a, b) == [sep |-> sep, a |-> a, b |-> b]
BlankTime == TimeText("", 0, 0)

\* a calendar date; NaT is pandas' missing date
Date(y, m, d) == [y |-> y, m |-> m, d |-> d]
NaT == Date(0, 0, 0)

\* a timestamp; NaTDatetime is the missing one
Datetime(dt, h, mi) == [def |-> TRUE, y |-> dt.y, m |-> dt.m, d |-> dt.d, h |-> h, mi |-> mi]
NaTDatetime == [def |-> FALSE, y |-> 0, m |-> 0, d |-> 0, h |-> 0, mi |-> 0]

\* a float cell of a derived column; Undefined is NaN
Number(v) == [def |-> TRUE, val |-> v]
Undefined == [def |-> FALSE, val |-> 0]

ValidYMD(y, m, d) == y >= 1 /\ m \in 1..12 /\ d \in 1..31

----------------------------------------------------------------------------
(* load_data, step by step *)

ReadCell(t) == IF t \in NaTexts THEN NaN ELSE t

\* pd.read_csv: the text columns, with the texts of NaTexts read as missing
read_csv(rows) ==
    [i \in 1..Len(rows) |->
        [rows[i] EXCEPT !.railcard = ReadCell(@), !.reason = ReadCell(@),
                        !.ticketClass = ReadCell(@), !.ticketType = ReadCell(@),
                        !.purchaseType = ReadCell(@), !.journeyStatus = ReadCell(@)]]

FillCell(v, with) == IF v = NaN THEN with ELSE v

\* df['Railcard'].fillna('None', inplace=True) and the same for 'Reason for
\* Delay': an inplace method on the result of df[...].  Without copy-on-write
\* df[...] is the column itself and is filled; with copy-on-write (pandas 3,
\* or the option in pandas 2) it is a temporary copy and df keeps its NaN.
fillna(rows, b) ==
    IF b.cow THEN rows
    ELSE [i \in 1..Len(rows) |->
            [rows[i] EXCEPT !.railcard = FillCell(@, "None"),
                            !.reason = FillCell(@, "On Time")]]

\* pd.to_datetime(..., format='mixed') of one cell: each cell is parsed on
\* its own; a missing cell gives NaT, a text no parser accepts raises
to_datetime_mixed(t) ==
    IF t.sep = "" THEN [ok |-> TRUE, v |-> NaT]
    ELSE IF t.sep = "-" /\ ValidYMD(t.a, t.b, t.c)
        THEN [ok |-> TRUE, v |-> Date(t.a, t.b, t.c)]       \* YYYY-MM-DD
    ELSE IF t.sep = "/" /\ ValidYMD(t.c, t.a, t.b)
        THEN [ok |-> TRUE, v |-> Date(t.c, t.a, t.b)]       \* MM/DD/YYYY
    ELSE IF t.sep = " " /\ ValidYMD(t.c, t.b, t.a)
        THEN [ok |-> TRUE, v |-> Date(t.c, t.b, t.a)]       \* D Mon YYYY
    ELSE [ok |-> FALSE, v |-> NaT]

DatesParse(rows) ==
    \A i \in 1..Len(rows) :
        to_datetime_mixed(rows[i].purchaseDate).ok /\ to_datetime_mixed(rows[i].journeyDate).ok

ParseDates(rows) ==
    [i \in 1..Len(rows) |->
        [rows[i] EXCEPT !.purchaseDate = to_datetime_mixed(@).v,
                        !.journeyDate = to_datetime_mixed(@).v]]

\* Series.astype(str) of a date column: ISO text, "NaT" for a missing date
astype_str(d) ==
    IF d = NaT THEN DateText("NaT", 0, 0, 0) ELSE DateText("-", d.y, d.m, d.d)

\* pd.to_datetime(date text + ' ' + time text, errors='coerce') of one cell:
\* text + NaN is NaN; what does not parse becomes NaT
to_datetime_coerce(dateText, timeText) ==
    IF /\ dateText.sep = "-" /\ ValidYMD(dateText.a, dateText.b, dateText.c)
       /\ timeText.sep = ":" /\ timeText.a \in 0..23 /\ timeText.b \in 0..59
    THEN Datetime(Date(dateText.a, dateText.b, dateText.c), timeText.a, timeText.b)
    ELSE NaTDatetime

\* days since a fixed day, for the difference of two timestamps
DaysBeforeMonth(y, m) ==
    LET cum == <<0, 31, 59, 90, 120, 151, 181, 212, 243, 273, 304, 334>>
        leap == (y % 4 = 0 /\ y % 100 # 0) \/ y % 400 = 0
    IN  cum[m] + (IF leap /\ m > 2 THEN 1 ELSE 0)

Ordinal(t) ==
    LET p == t.y - 1
    IN  p * 365 + (p \div 4) - (p \div 100) + (p \div 400) + DaysBeforeMonth(t.y, t.m) + t.d

EpochMinutes(t) == (Ordinal(t) * 24 + t.h) * 60 + t.mi

\* .dt.hour
dt_hour(t) == IF t.def THEN Number(t.h) ELSE Undefined

\* (actual - planned).dt.total_seconds() / 60
DelayInMins(actual, planned) ==
    IF actual.def /\ planned.def
    THEN Number(EpochMinutes(actual) - EpochMinutes(planned))
    ELSE Undefined

\* the three Datetime columns and the derived columns Route, Departure Hour,
\* Delay in Mins
Derive(r) ==
    LET dep == to_datetime_coerce(astype_str(r.journeyDate), r.depTime)
        arr == to_datetime_coerce(astype_str(r.journeyDate), r.arrTime)
        act == to_datetime_coerce(astype_str(r.journeyDate), r.actTime)
    IN  [railcard |-> r.railcard, reason |-> r.reason,
         purchaseDate |-> r.purchaseDate, journeyDate |-> r.journeyDate,
         depTime |-> r.depTime, arrTime |-> r.arrTime, actTime |-> r.actTime,
         depStation |-> r.depStation, arrStation |-> r.arrStation,
         ticketClass |-> r.ticketClass, ticketType |-> r.ticketType,
         purchaseType |-> r.purchaseType, journeyStatus |-> r.journeyStatus,
         price |-> r.price,
         departureDatetime |-> dep, arrivalDatetime |-> arr, actualArrivalDatetime |-> act,
         route |-> <<r.depStation, " to ", r.arrStation>>,
         departureHour |-> dt_hour(dep),
         delayMinutes |-> DelayInMins(act, arr)]

FeatureEngineering(rows) == [i \in 1..Len(rows) |-> Derive(rows[i])]

\* the values of a sequence of integers in ascending order
RECURSIVE Insert(_, _)
Insert(s, x) ==
    IF s = <<>> THEN <<x>>
    ELSE IF x <= Head(s) THEN <<x>> \o s
    ELSE <<Head(s)>> \o Insert(Tail(s), x)

RECURSIVE SortAsc(_)
SortAsc(s) == IF s = <<>> THEN <<>> ELSE Insert(SortAsc(Tail(s)), Head(s))

Prices(rows) == [i \in 1..Len(rows) |-> rows[i].price]

\* four times Series.quantile(k/4) with pandas' default linear interpolation,
\* of a non-empty column
Quantile4(prices, k) ==
    LET s == SortAsc(prices)
        pos4 == (Len(s) - 1) * k
        i == pos4 \div 4
        r == pos4 % 4
    IN  IF r = 0 THEN 4 * s[i + 1]
        ELSE 4 * s[i + 1] + r * (s[i + 2] - s[i + 1])

\* eight times lower_bound = Q1 - 1.5 * IQR
LowerBound8(prices) ==
    2 * Quantile4(prices, 1) - 3 * (Quantile4(prices, 3) - Quantile4(prices, 1))

\* eight times upper_bound = Q3 + 1.5 * IQR
UpperBound8(prices) ==
    2 * Quantile4(prices, 3) + 3 * (Quantile4(prices, 3) - Quantile4(prices, 1))

\* the comparison with the bounds excluded
KeepPriceStrict(p, lower8, upper8) == 8 * p > lower8 /\ 8 * p < upper8

\* (df['Price'] >= lower_bound) & (df['Price'] <= upper_bound), times eight
KeepPrice(p, lower8, upper8) == 8 * p >= lower8 /\ 8 * p <= upper8

\* df[(df['Price'] >= lower_bound) & (df['Price'] <= upper_bound)].copy();
\* the quantiles of an empty column are NaN, and no row is there to compare
OutlierRemoval(rows) ==
    IF rows = <<>> THEN <<>>
    ELSE LET lower8 == LowerBound8(Prices(rows))
             upper8 == UpperBound8(Prices(rows))
             keep(r) == KeepPrice(r.price, lower8, upper8)
         IN  SelectSeq(rows, keep)

\* the table before the outlier removal (steps 1 to 3 of the function's body)
Prepared(rows, b) == FeatureEngineering(ParseDates(fillna(read_csv(rows), b)))

\* every time cell of the table parses as a time of day
TimesParse(rows) ==
    \A i \in 1..Len(rows) :
        /\ to_datetime_coerce(astype_str(rows[i].journeyDate), rows[i].depTime).def
        /\ to_datetime_coerce(astype_str(rows[i].journeyDate), rows[i].arrTime).def
        /\ to_datetime_coerce(astype_str(rows[i].journeyDate), rows[i].actTime).def

\* the body of load_data as it would be without errors='coerce': a time
\* that does not parse raises
load_data_body_raise(f, b) ==
    IF ~f.exists THEN [status |-> "FileNotFound", table |-> <<>>]
    ELSE LET filled == fillna(read_csv(f.rows), b)
         IN  IF ~DatesParse(filled) \/ ~TimesParse(ParseDates(filled))
             THEN [status |-> "ValueError", table |-> <<>>]
             ELSE [status |-> "ok",
                   table |-> OutlierRemoval(FeatureEngineering(ParseDates(filled)))]

\* the body of load_data on a file: the way it ends and the table it returns
load_data_body(f, b) ==
    IF ~f.exists THEN [status |-> "FileNotFound", table |-> <<>>]
    ELSE LET filled == fillna(read_csv(f.rows), b)
         IN  IF ~DatesParse(filled) THEN [status |-> "ValueError", table |-> <<>>]
             ELSE [status |-> "ok",
                   table |-> OutlierRemoval(FeatureEngineering(ParseDates(filled)))]

----------------------------------------------------------------------------
(* Column access and the aggregations of the tabs *)

\* df[name] of one row, by the column's name in the file
Col(r, name) ==
    CASE name = "Ticket Class" -> r.ticketClass
      [] name = "Ticket Type" -> r.ticketType
      [] name = "Purchase Type" -> r.purchaseType
      [] name = "Journey Status" -> r.journeyStatus
      [] name = "Railcard" -> r.railcard
      [] name = "Reason for Delay" -> r.reason
      [] name = "Route" -> r.route
      [] name = "Departure Hour" -> r.departureHour

Column(rows, name) == [i \in 1..Len(rows) |-> Col(rows[i], name)]

\* the comparison of a text column with a value: a missing value equals nothing
PdEq(a, b) == a # NaN /\ b # NaN /\ a = b

\* df[df[name] == value]
FilterEq(rows, name, value) ==
    LET keep(r) == PdEq(Col(r, name), value)
    IN  SelectSeq(rows, keep)

\* the values of a text column that are not missing
dropna(vals) ==
    LET present(v) == v # NaN
    IN  SelectSeq(vals, present)

\* the defined values of a float column
dropna_number(vals) ==
    LET present(v) == v.def
    IN  SelectSeq(vals, present)

Member(vals, v) == \E i \in 1..Len(vals) : vals[i] = v

\* Series.unique(): the distinct values in the order they first appear
RECURSIVE UniqueFrom(_, _)
UniqueFrom(seen, rest) ==
    IF rest = <<>> THEN seen
    ELSE IF Member(seen, Head(rest)) THEN UniqueFrom(seen, Tail(rest))
    ELSE UniqueFrom(Append(seen, Head(rest)), Tail(rest))

unique(vals) == UniqueFrom(<<>>, vals)

CountIn(vals, v) == Cardinality({i \in 1..Len(vals) : vals[i] = v})

Reverse(s) == [i \in 1..Len(s) |-> s[Len(s) + 1 - i]]

\* a stable sort of <<value, number>> pairs by number, largest first
RECURSIVE InsertDesc(_, _)
InsertDesc(s, p) ==
    IF s = <<>> THEN <<p>>
    ELSE IF p[2] > Head(s)[2] THEN <<p>> \o s
    ELSE <<Head(s)>> \o InsertDesc(Tail(s), p)

RECURSIVE StableDescFrom(_, _)
StableDescFrom(done, rest) ==
    IF rest = <<>> THEN done
    ELSE StableDescFrom(InsertDesc(done, Head(rest)), Tail(rest))

StableDesc(pairs) == StableDescFrom(<<>>, pairs)

\* Series.sort_values(ascending=False) with the default kind='quicksort',
\* which is not a stable sort: where the build's sort keeps equal numbers in
\* their order the result is the stable one, elsewhere equal numbers come
\* out in another order (here: the reverse)
sort_values_desc(pairs, b) ==
    IF b.stableSort THEN StableDesc(pairs) ELSE StableDesc(Reverse(pairs))

\* Series.value_counts() of the values that are not missing: counted in the
\* order of first appearance, then sorted by count, largest first
value_counts(vals, b) ==
    LET u == unique(vals)
    IN  sort_values_desc([i \in 1..Len(u) |-> <<u[i], CountIn(vals, u[i])>>], b)

\* the ranking without the cut at n
nlargest_uncut(pairs, n, b) == sort_values_desc(pairs, b)

\* Series.nlargest(n), keep='first': with n >= len it is sort_values().head(n),
\* otherwise the n largest are selected and ordered by a mergesort
nlargest(pairs, n, b) ==
    IF n >= Len(pairs) THEN sort_values_desc(pairs, b)
    ELSE SubSeq(StableDesc(pairs), 1, n)

RECURSIVE SumPrice(_)
SumPrice(rows) == IF rows = <<>> THEN 0 ELSE Head(rows).price + SumPrice(Tail(rows))

\* the text values of the model in alphabetical order (groupby sorts its keys)
Alphabet ==
    <<"Adult", "Advance", "Anytime", "Delayed", "First", "Off-Peak", "On Time", "Online",
      "Signal Failure", "Standard", "Station", "Weather">>

SortKeys(vals) ==
    LET present(k) == Member(vals, k)
    IN  SelectSeq(Alphabet, present)

\* the grouping with .first() in the place of .sum()
groupby_first(rows, name) ==
    LET keys == SortKeys(dropna(Column(rows, name)))
    IN  [i \in 1..Len(keys) |-> <<keys[i], Head(FilterEq(rows, name, keys[i])).price>>]

\* df.groupby(name)['Price'].sum(): one <<key, sum>> per key that is not
\* missing, in the order of the keys
groupby_sum(rows, name) ==
    LET keys == SortKeys(dropna(Column(rows, name)))
    IN  [i \in 1..Len(keys) |-> <<keys[i], SumPrice(FilterEq(rows, name, keys[i]))>>]

\* round(mean, 2) in hundredths, for a non-empty table (half to even)
RoundedMeanCents(rows) ==
    LET num == 100 * SumPrice(rows)
        n == Len(rows)
        q == num \div n
        r == num % n
    IN  IF 2 * r < n THEN q
        ELSE IF 2 * r > n THEN q + 1
        ELSE IF q % 2 = 0 THEN q ELSE q + 1

----------------------------------------------------------------------------
(* Widgets and create_interactive_filters *)

KpiKeys == {"kpi_class", "kpi_type", "kpi_status"}
RouteKeys == {"class_route", "type_route", "purchase_route", "status_route"}
DelKeys == {"class_del", "type_del", "purchase_del"}
Keys == KpiKeys \cup RouteKeys \cup DelKeys

\* the first option of a selectbox, which stands for "no constraint"
Sentinel(k) == IF k \in KpiKeys THEN "All" ELSE "None"

\* the column a selectbox takes its options from
KeyColumn(k) ==
    CASE k \in {"kpi_class", "class_route", "class_del"} -> "Ticket Class"
      [] k \in {"kpi_type", "type_route", "type_del"} -> "Ticket Type"
      [] k \in {"purchase_route", "purchase_del"} -> "Purchase Type"
      [] k \in {"kpi_status", "status_route"} -> "Journey Status"

\* options=[sentinel] + list(df[column].unique())
Options(k, table) == <<Sentinel(k)>> \o unique(Column(table, KeyColumn(k)))

\* a session's widget values before any selection: each selectbox shows its
\* first option
DefaultSel == [k \in Keys |-> Sentinel(k)]

\* if value != 'None': filtered_df = filtered_df[filtered_df[name] == value]
FilterStep(rows, name, value, sentinel) ==
    IF value # sentinel THEN FilterEq(rows, name, value) ELSE rows

\* the helper with its last filter left out
create_interactive_filters_no_status(table, key_prefix, exclude_filters, s) ==
    LET f1 == FilterStep(table, "Ticket Class", s["class_" \o key_prefix], "None")
        f2 == FilterStep(f1, "Ticket Type", s["type_" \o key_prefix], "None")
    IN  FilterStep(f2, "Purchase Type", s["purchase_" \o key_prefix], "None")

\* create_interactive_filters(df, key_prefix, exclude_filters) under the
\* widget values s: the four filters one after the other
create_interactive_filters(table, key_prefix, exclude_filters, s) ==
    LET class_filter == s["class_" \o key_prefix]
        type_filter == s["type_" \o key_prefix]
        purchase_filter == s["purchase_" \o key_prefix]
        status_filter == IF "status" \notin exclude_filters
                         THEN s["status_" \o key_prefix] ELSE "None"
        f1 == FilterStep(table, "Ticket Class", class_filter, "None")
        f2 == FilterStep(f1, "Ticket Type", type_filter, "None")
        f3 == FilterStep(f2, "Purchase Type", purchase_filter, "None")
    IN  FilterStep(f3, "Journey Status", status_filter, "None")

----------------------------------------------------------------------------
(* The tabs.  Each takes the script's df and gives it back with what it    *)
(* computed; none of them assigns to df.                                   *)

\* n of nlargest(10)
TopRoutes == 10

\* tab 1 as it would be if it filtered df itself and not a copy
Tab1_in_place(table, s) ==
    LET k1 == FilterStep(table, "Ticket Class", s["kpi_class"], "All")
        k2 == FilterStep(k1, "Ticket Type", s["kpi_type"], "All")
        metrics(df_kpi_selection) ==
            [df |-> df_kpi_selection,
             kpi |-> [subset |-> df_kpi_selection,
                      total_journeys |-> Len(df_kpi_selection),
                      total_revenue |-> SumPrice(df_kpi_selection),
                      avg_price |-> IF df_kpi_selection # <<>>
                                    THEN Number(RoundedMeanCents(df_kpi_selection))
                                    ELSE Number(0)]]
    IN  metrics(FilterStep(k2, "Journey Status", s["kpi_status"], "All"))

\* Tab 1: the KPI filters and the three metrics (the average in hundredths)
Tab1(table, s) ==
    LET k1 == FilterStep(table, "Ticket Class", s["kpi_class"], "All")
        k2 == FilterStep(k1, "Ticket Type", s["kpi_type"], "All")
        metrics(df_kpi_selection) ==
            [df |-> table,
             kpi |-> [subset |-> df_kpi_selection,
                      total_journeys |-> Len(df_kpi_selection),
                      total_revenue |-> SumPrice(df_kpi_selection),
                      avg_price |-> IF df_kpi_selection # <<>>
                                    THEN Number(RoundedMeanCents(df_kpi_selection))
                                    ELSE Number(0)]]
    IN  metrics(FilterStep(k2, "Journey Status", s["kpi_status"], "All"))

\* Tab 2: the top routes of the filtered table, and the journeys by hour of
\* the whole table.  top_10_routes[0] of an empty index raises IndexError.
Tab2(table, s, b) ==
    LET by_hour(hours) == [h \in {hours[i].val : i \in 1..Len(hours)} |->
                                CountIn(hours, Number(h))]
        view(filtered_df_route, top_10_routes) ==
            [df |-> table,
             raised |-> filtered_df_route # <<>> /\ top_10_routes = <<>>,
             route |-> [subset |-> filtered_df_route,
                        chart |-> filtered_df_route # <<>>,
                        top |-> IF filtered_df_route # <<>> THEN top_10_routes ELSE <<>>],
             journeys_by_hour |-> by_hour(dropna_number(Column(table, "Departure Hour")))]
        ranked(filtered_df_route) ==
            view(filtered_df_route,
                 nlargest(value_counts(Column(filtered_df_route, "Route"), b), TopRoutes, b))
    IN  ranked(create_interactive_filters(table, "route", {}, s))

\* Tab 3: revenue by ticket type (largest first) and by ticket class
Tab3(table, b) ==
    [df |-> table,
     revenue_by_type |-> sort_values_desc(groupby_sum(table, "Ticket Type"), b),
     revenue_by_class |-> groupby_sum(table, "Ticket Class")]

\* Tab 4: the status distribution and the reasons of the delayed journeys of
\* the filtered table.  top_delay_reasons[0] of an empty index raises IndexError.
Tab4(table, s, b) ==
    LET view(filtered_df_delays, delayed_journeys, top_delay_reasons) ==
            [df |-> table,
             raised |-> delayed_journeys # <<>> /\ top_delay_reasons = <<>>,
             status_counts |-> value_counts(dropna(Column(table, "Journey Status")), b),
             delays |-> [filtered |-> filtered_df_delays,
                         subset |-> delayed_journeys,
                         chart |-> delayed_journeys # <<>>,
                         top |-> IF delayed_journeys # <<>> THEN top_delay_reasons ELSE <<>>]]
        ranked(filtered_df_delays, delayed_journeys) ==
            view(filtered_df_delays, delayed_journeys,
                 value_counts(dropna(Column(delayed_journeys, "Reason for Delay")), b))
        delayed(filtered_df_delays) ==
            ranked(filtered_df_delays, FilterEq(filtered_df_delays, "Journey Status", "Delayed"))
    IN  delayed(create_interactive_filters(table, "del", {"status"}, s))

\* Tab 5: purchase types and railcards
Tab5(table, b) ==
    [df |-> table,
     purchase_counts |-> value_counts(dropna(Column(table, "Purchase Type")), b),
     railcard_counts |-> value_counts(dropna(Column(table, "Railcard")), b)]

\* what a tab that was not reached leaves; tabs counts the tabs the run
\* finished, widgets the tabs whose selectboxes it showed
NoView == [subset |-> <<>>, chart |-> FALSE, top |-> <<>>]
NoDelays == [filtered |-> <<>>, subset |-> <<>>, chart |-> FALSE, top |-> <<>>]
NoKpi == [subset |-> <<>>, total_journeys |-> 0, total_revenue |-> 0, avg_price |-> Undefined]
NotRendered ==
    [tabs |-> 0, widgets |-> 0, kpi |-> NoKpi, route |-> NoView, journeys_by_hour |-> <<>>,
     revenue_by_type |-> <<>>, revenue_by_class |-> <<>>, status_counts |-> <<>>,
     delays |-> NoDelays, purchase_counts |-> <<>>, railcard_counts |-> <<>>]

\* the tabs in the order of the script; an exception ends the run, and the
\* tabs after it are not rendered
Tabs(table, s, b) ==
    LET o1(t1) == [NotRendered EXCEPT !.tabs = 1, !.widgets = 1, !.kpi = t1.kpi]
        o2(t1, t2) ==
            [o1(t1) EXCEPT !.tabs = 2, !.widgets = 2, !.route = t2.route,
                           !.journeys_by_hour = t2.journeys_by_hour]
        o3(t1, t2, t3) ==
            [o2(t1, t2) EXCEPT !.tabs = 3, !.revenue_by_type = t3.revenue_by_type,
                               !.revenue_by_class = t3.revenue_by_class]
        o4(t1, t2, t3, t4) ==
            [o3(t1, t2, t3) EXCEPT !.tabs = 4, !.widgets = 4,
                                   !.status_counts = t4.status_counts, !.delays = t4.delays]
        o5(t1, t2, t3, t4, t5) ==
            [o4(t1, t2, t3, t4) EXCEPT !.tabs = 5, !.purchase_counts = t5.purchase_counts,
                                       !.railcard_counts = t5.railcard_counts]
        after5(t1, t2, t3, t4, t5) ==
            [status |-> "ok", df |-> t5.df, out |-> o5(t1, t2, t3, t4, t5)]
        after4(t1, t2, t3, t4) ==
            IF t4.raised
            THEN [status |-> "IndexError", df |-> t4.df,
                  out |-> [o3(t1, t2, t3) EXCEPT !.widgets = 4]]
            ELSE after5(t1, t2, t3, t4, Tab5(t4.df, b))
        after3(t1, t2, t3) == after4(t1, t2, t3, Tab4(t3.df, s, b))
        after2(t1, t2) ==
            IF t2.raised
            THEN [status |-> "IndexError", df |-> t2.df, out |-> [o1(t1) EXCEPT !.widgets = 2]]
            ELSE after3(t1, t2, Tab3(t2.df, b))
        after1(t1) == after2(t1, Tab2(t1.df, s, b))
    IN  after1(Tab1(table, s))

----------------------------------------------------------------------------
(* The script *)

NoCache == [valid |-> FALSE, src |-> <<>>, table |-> <<>>]

\* load_data as it would be with the cache entry keyed on the file's
\* contents as well: the body runs again when the contents have changed
load_data_content_keyed(f, c, b) ==
    LET miss(r) ==
            [status |-> r.status, table |-> r.table, ran |-> TRUE,
             cache |-> IF r.status = "ok"
                       THEN [valid |-> TRUE, src |-> f.rows, table |-> r.table]
                       ELSE c]
    IN  IF c.valid /\ f.exists /\ c.src = f.rows
        THEN [status |-> "ok", table |-> c.table, ran |-> FALSE, cache |-> c]
        ELSE miss(load_data_body(f, b))

\* df = load_data(data_path) under @st.cache_data: the entry is keyed on the
\* function and its argument, so once an entry exists the body is not run
\* and the file is not read; a call that raises or stops stores nothing
load_data(f, c, b) ==
    LET miss(r) ==
            [status |-> r.status, table |-> r.table, ran |-> TRUE,
             cache |-> IF r.status = "ok"
                       THEN [valid |-> TRUE, src |-> f.rows, table |-> r.table]
                       ELSE c]
    IN  IF c.valid
        THEN [status |-> "ok", table |-> c.table, ran |-> FALSE, cache |-> c]
        ELSE miss(load_data_body(f, b))

\* one run of the script under the widget values s: how it ends, and what
\* it leaves in the cache, in df and on the page
RunScript(f, c, b, s) ==
    LET rendered(l, t) ==
            [cache |-> l.cache, ran |-> l.ran, status |-> t.status,
             df |-> t.df, out |-> t.out]
        loaded(l) ==
            IF l.status = "ok"
            THEN rendered(l, Tabs(l.table, s, b))
            ELSE [cache |-> l.cache, ran |-> l.ran, status |-> l.status,
                  df |-> <<>>, out |-> NotRendered]
    IN  loaded(load_data(f, c, b))

Script(s) ==
    \E r \in {RunScript(file, cache, build, s)} :
        /\ cache' = r.cache
        /\ lastLoad' = (IF r.ran THEN "miss" ELSE "hit")
        /\ status' = r.status
        /\ df' = r.df
        /\ out' = r.out

\* a browser opens the page: a new session, every widget at its first option
Start ==
    /\ sel' = DefaultSel
    /\ changes' = 0
    /\ Script(DefaultSel)
    /\ UNCHANGED <<file, build>>

\* the user picks another option of a selectbox that the last run showed;
\* Streamlit runs the script again
Select ==
    \E k \in Keys :
        /\ out.widgets >= (IF k \in KpiKeys THEN 1 ELSE IF k \in RouteKeys THEN 2 ELSE 4)
        /\ changes < MaxChanges
        /\ \E i \in 1..Len(Options(k, df)) :
            LET v == Options(k, df)[i]
            IN  /\ v # sel[k]
                /\ sel' = [sel EXCEPT ![k] = v]
                /\ changes' = changes + 1
                /\ Script([sel EXCEPT ![k] = v])
        /\ UNCHANGED <<file, build>>

\* the owner of the data replaces, creates or removes the file at data_path
WriteFile(tables) ==
    /\ \E f \in {[exists |-> TRUE, rows |-> t] : t \in tables}
                \cup {[exists |-> FALSE, rows |-> <<>>]} :
        /\ f # file
        /\ file' = f
    /\ UNCHANGED <<cache, build, sel, changes, status, df, out, lastLoad>>

----------------------------------------------------------------------------
(* The tables the model's files hold *)

\* the sequences over a set of rows, up to a length
SeqUpTo(S, n) == UNION {[1..k -> S] : k \in 0..n}

\* a journey the file may hold: 1 Feb 2024, planned 08:00 to 08:05, arrived 08:15
BaseRow ==
    [railcard |-> "Adult", reason |-> "Signal Failure",
     purchaseDate |-> DateText("-", 2024, 1, 5), journeyDate |-> DateText("-", 2024, 2, 1),
     depTime |-> TimeText(":", 8, 0), arrTime |-> TimeText(":", 8, 5),
     actTime |-> TimeText(":", 8, 15),
     depStation |-> "London", arrStation |-> "York",
     ticketClass |-> "Standard", ticketType |-> "Advance",
     purchaseType |-> "Online", journeyStatus |-> "Delayed", price |-> 10]

\* rows that differ in the price
PriceRows == {[BaseRow EXCEPT !.price = p] : p \in {10, 11, 12, 13, 1000}}

\* rows that differ from BaseRow in one cell that load_data repairs or parses
LoadRows ==
    {BaseRow}
    \cup {[BaseRow EXCEPT !.railcard = t] : t \in {"", "None"}}
    \cup {[BaseRow EXCEPT !.reason = ""]}
    \cup {[BaseRow EXCEPT !.journeyDate = t] :
            t \in {DateText("/", 2, 1, 2024), DateText(" ", 1, 2, 2024),
                   DateText("?", 0, 0, 0), BlankDate}}
    \cup {[BaseRow EXCEPT !.purchaseDate = t] : t \in {DateText("?", 0, 0, 0), BlankDate}}
    \cup {[BaseRow EXCEPT !.depTime = t] : t \in {TimeText("?", 0, 0), TimeText(":", 17, 30)}}
    \cup {[BaseRow EXCEPT !.arrTime = t] : t \in {BlankTime, TimeText(":", 8, 20)}}
    \cup {[BaseRow EXCEPT !.actTime = t] : t \in {BlankTime, TimeText(":", 25, 0)}}

\* a table for the filters and the aggregations: no two of the four filter
\* columns split its rows the same way; the second journey is delayed with
\* no reason given
FilterTable ==
    <<BaseRow,
      [BaseRow EXCEPT !.ticketClass = "First", !.ticketType = "Off-Peak",
                      !.purchaseType = "Station", !.reason = "", !.price = 13],
      [BaseRow EXCEPT !.ticketType = "Anytime", !.purchaseType = "Station",
                      !.journeyStatus = "On Time", !.reason = "", !.price = 11]>>

\* the rows of a table at the places I, in the table's order
Pick(t, I) ==
    [k \in 1..Cardinality(I) |-> t[CHOOSE i \in I : Cardinality({j \in I : j < i}) = k - 1]]

\* the tables of up to n rows taken from a table
PickUpTo(t, n) == {Pick(t, I) : I \in {J \in SUBSET (1..Len(t)) : Cardinality(J) <= n}}

\* rows of the files that are replaced while the dashboard runs
CacheRows == {BaseRow, [BaseRow EXCEPT !.ticketClass = "First", !.price = 13]}

\* the routes between four stations
Stations == <<"London", "York", "Leeds", "Bath">>
RouteList ==
    LET pairs == {<<i, j>> \in (1..Len(Stations)) \X (1..Len(Stations)) : i # j}
        rank(p) == (p[1] - 1) * Len(Stations) + p[2]
        nth(n) == CHOOSE p \in pairs : Cardinality({q \in pairs : rank(q) < rank(p)}) = n - 1
    IN  [n \in 1..Cardinality(pairs) |-> nth(n)]

ReasonList == <<"Signal Failure", "Weather">>

\* the journey on the n-th route
RouteRow(n) ==
    [BaseRow EXCEPT !.depStation = Stations[RouteList[n][1]],
                    !.arrStation = Stations[RouteList[n][2]],
                    !.reason = ReasonList[(n % Len(ReasonList)) + 1]]

\* tables with many routes: some more journeys on the first, the second or
\* the last of the first k routes, then one journey on each of the k routes
RouteTables ==
    UNION {{[i \in 1..(Len(e) + k) |->
                IF i <= Len(e) THEN RouteRow(e[i]) ELSE RouteRow(i - Len(e))] :
            e \in SeqUpTo({1, 2, k} \cap (1..k), MaxExtra)} : k \in 0..Len(RouteList)}

----------------------------------------------------------------------------
(* Specifications *)

Builds == [cow : BOOLEAN, stableSort : BOOLEAN]

\* the server starts: no run of the script yet, nothing cached
InitWith(tables) ==
    /\ file \in {[exists |-> TRUE, rows |-> t] : t \in tables}
    /\ cache = NoCache
    /\ build \in Builds
    /\ sel = DefaultSel
    /\ changes = 0
    /\ status = "not run"
    /\ df = <<>>
    /\ out = NotRendered
    /\ lastLoad = "none"

\* the dashboard with its file replaced while it runs
Init == InitWith(SeqUpTo(CacheRows, MaxFileRows))
Next == Start \/ Select \/ WriteFile(SeqUpTo(CacheRows, MaxFileRows))
Spec == Init /\ [][Next]_vars

\* load_data on tables of prices: the short ones, and the table with one outlier
OutlierTable == [i \in 1..5 |-> [BaseRow EXCEPT !.price = <<10, 12, 11, 13, 1000>>[i]]]
InitPrice == InitWith(SeqUpTo(PriceRows, MaxPriceRows) \cup {OutlierTable})
NextLoad == Start
SpecPrice == InitPrice /\ [][NextLoad]_vars

\* load_data on tables with cells to repair and to parse
InitLoad == InitWith(SeqUpTo(LoadRows, MaxLoadRows))
SpecLoad == InitLoad /\ [][NextLoad]_vars

\* the filters and aggregations of the tabs
InitFilter == InitWith(PickUpTo(FilterTable, MaxRows))
NextSession == Start \/ Select
SpecFilter == InitFilter /\ [][NextSession]_vars

\* the rankings on tables of many routes
InitRoutes == InitWith(RouteTables)
SpecRoutes == InitRoutes /\ [][NextLoad]_vars

----------------------------------------------------------------------------
(* What the claims speak of *)

\* a run of the script got its table from load_data
Loaded == {"ok", "IndexError"}

AsFile(rows) == [exists |-> TRUE, rows |-> rows]

\* the criteria a view's selectboxes set: <<column, value>> for each
\* selectbox that does not show its first option
SetCriteria(keys, s) == {<<KeyColumn(k), s[k]>> : k \in {j \in keys : s[j] # Sentinel(j)}}

\* the rows of a table that match every criterion
Matching(table, criteria) ==
    LET matches(r) == \A c \in criteria : Col(r, c[1]) = c[2]
    IN  SelectSeq(table, matches)

\* the place of a value's first row in a column
FirstIndex(vals, v) == CHOOSE i \in 1..Len(vals) : vals[i] = v /\ \A j \in 1..(i - 1) : vals[j] # v

RECURSIVE SumSecond(_)
SumSecond(pairs) == IF pairs = <<>> THEN 0 ELSE Head(pairs)[2] + SumSecond(Tail(pairs))

----------------------------------------------------------------------------
(* C1 *)

\* C1 as stated: every load_data call returns the cleaning of the contents
\* the file has at the time of the call, and the body is skipped only when
\* the contents are those of the cached computation.  (A step that leaves
\* the file alone and changes the state is a run of the script; the file is
\* there when the call is made.)
C1_LoadFollowsFileContents ==
    [][file' = file /\ file.exists /\ status' \in Loaded =>
        /\ load_data_body(file, build).status = "ok"
        /\ df' = load_data_body(file, build).table
        /\ (lastLoad' = "hit" => cache.valid /\ cache.src = file.rows)]_vars

\* C1 amended: the cache is keyed on the path alone.  The first call that
\* completes runs the body on the file's contents at that time and caches
\* the table; every later call returns that table without reading the file
\* or running the body, whatever the file holds by then; a call that fails
\* caches nothing.
C1_CacheKeyedOnPath ==
    /\ [](cache.valid => cache.table = load_data_body(AsFile(cache.src), build).table)
    /\ [][file' = file =>
            IF cache.valid
            THEN /\ lastLoad' = "hit" /\ cache' = cache
                 /\ status' \in Loaded /\ df' = cache.table
            ELSE /\ lastLoad' = "miss"
                 /\ IF load_data_body(file, build).status = "ok"
                    THEN /\ status' \in Loaded
                         /\ cache' = [valid |-> TRUE, src |-> file.rows,
                                      table |-> load_data_body(file, build).table]
                         /\ df' = cache'.table
                    ELSE /\ status' = load_data_body(file, build).status
                         /\ cache' = cache]_vars

\* a run served from the cache although the file has other contents by now,
\* whose cleaning differs from the table returned
C1_StaleHit ==
    /\ status \in Loaded /\ lastLoad = "hit"
    /\ file.exists /\ file.rows # cache.src
    /\ df # load_data_body(file, build).table

----------------------------------------------------------------------------
(* C2 *)

\* eight times the price bounds of a table, from its quartiles
PriceBounds8(rows) ==
    LET q1 == Quantile4(Prices(rows), 1)
        q3 == Quantile4(Prices(rows), 3)
    IN  [lower |-> 2 * q1 - 3 * (q3 - q1), upper |-> 2 * q3 + 3 * (q3 - q1)]

\* C2: every row of the table load_data returns has its price within
\* [Q1 - 1.5 IQR, Q3 + 1.5 IQR], the quartiles being those of the whole
\* table before any row is removed; the rows within the bounds are all kept,
\* in their order, and the others dropped; prices [10,12,11,13,1000] keep
\* the four small prices.
C2_PriceWithinIQRBounds ==
    status \in Loaded /\ file.rows # <<>> =>
        LET before == Prepared(file.rows, build)
            bounds == PriceBounds8(before)
            inside(r) == bounds.lower <= 8 * r.price /\ 8 * r.price <= bounds.upper
        IN  /\ \A i \in 1..Len(df) : inside(df[i])
            /\ df = SelectSeq(before, inside)
            /\ (Prices(file.rows) = <<10, 12, 11, 13, 1000>> => Prices(df) = <<10, 12, 11, 13>>)

\* the table of the scenario was loaded and lost its outlier
C2_OutlierDropped ==
    /\ status = "ok"
    /\ Prices(file.rows) = <<10, 12, 11, 13, 1000>>
    /\ Prices(df) = <<10, 12, 11, 13>>

----------------------------------------------------------------------------
(* C3 *)

\* C3: what the filters of a view return is exactly the rows of the table
\* that match every set criterion by equality on its column; a selectbox
\* constrains nothing only when it shows its first option, and with none
\* set the whole table comes back.  (create_interactive_filters for the
\* route view and the delay view, the KPI filters of tab 1.)
C3_FiltersReturnMatchingRows ==
    /\ out.tabs >= 1 =>
        out.kpi.subset = Matching(df, SetCriteria(KpiKeys, sel))
    /\ out.tabs >= 2 =>
        /\ out.route.subset = Matching(df, SetCriteria(RouteKeys, sel))
        /\ (SetCriteria(RouteKeys, sel) = {} => out.route.subset = df)
    /\ out.tabs >= 4 =>
        out.delays.filtered = Matching(df, SetCriteria(DelKeys, sel))

\* two criteria of the route view are set and keep some rows but not all
C3_TwoCriteriaNarrow ==
    /\ out.tabs >= 2
    /\ Cardinality(SetCriteria(RouteKeys, sel)) = 2
    /\ out.route.subset # <<>>
    /\ Len(out.route.subset) < Len(df)

----------------------------------------------------------------------------
(* C4 *)

\* a date cell in one of the two forms YYYY-MM-DD and MM/DD/YYYY
MatchesDateForm(t) ==
    \/ t.sep = "-" /\ ValidYMD(t.a, t.b, t.c)
    \/ t.sep = "/" /\ ValidYMD(t.c, t.a, t.b)

\* C4 as stated: load_data fails on the dates if and only if some row's
\* purchase date or journey date is in neither form, and every row of a
\* loaded table has both dates defined.
C4_MalformedDateHaltsLoad ==
    status # "not run" =>
        /\ status = "ValueError" <=>
             \E i \in 1..Len(file.rows) :
                \/ ~MatchesDateForm(file.rows[i].purchaseDate)
                \/ ~MatchesDateForm(file.rows[i].journeyDate)
        /\ status \in Loaded =>
             \A i \in 1..Len(df) : df[i].purchaseDate # NaT /\ df[i].journeyDate # NaT

----------------------------------------------------------------------------
(* C5 *)

WellFormedTime(t) == t.sep = ":" /\ t.a \in 0..23 /\ t.b \in 0..59

\* the timestamp a row's own journey date and time of day give
OwnTimestamp(date, t) ==
    IF date # NaT /\ WellFormedTime(t) THEN Datetime(date, t.a, t.b) ELSE NaTDatetime

----------------------------------------------------------------------------
(* C6 *)

\* C6 as stated: no row of the loaded table has a missing railcard or
\* reason for delay; a missing railcard has become "None", a missing reason
\* "On Time", and the other values are as they were read.
C6_MissingValuesFilled ==
    status \in Loaded /\ Len(df) = Len(file.rows) =>
        \A i \in 1..Len(df) :
            /\ df[i].railcard # NaN /\ df[i].reason # NaN
            /\ df[i].railcard = FillCell(ReadCell(file.rows[i].railcard), "None")
            /\ df[i].reason = FillCell(ReadCell(file.rows[i].reason), "On Time")

----------------------------------------------------------------------------
(* C7 *)

----------------------------------------------------------------------------
(* C8 *)

Min(a, b) == IF a <= b THEN a ELSE b

\* top is a ranking of the values of a column by count, cut at limit
Ranking(top, vals, limit) ==
    /\ Len(top) = Min(limit, Cardinality({vals[i] : i \in 1..Len(vals)}))
    /\ \A i \in 1..Len(top) : top[i][2] = CountIn(vals, top[i][1]) /\ top[i][2] >= 1
    /\ \A i, j \in 1..Len(top) : i < j => top[i][1] # top[j][1] /\ top[i][2] >= top[j][2]
    /\ \A k \in 1..Len(vals) :
        (\A i \in 1..Len(top) : top[i][1] # vals[k]) =>
            \A i \in 1..Len(top) : CountIn(vals, vals[k]) <= top[i][2]

\* equal counts are in the order in which the values first appear, and a
\* value left out has no earlier first appearance than a returned value of
\* the same count
TiesByFirstAppearance(top, vals) ==
    /\ \A i, j \in 1..Len(top) :
        i < j /\ top[i][2] = top[j][2] =>
            FirstIndex(vals, top[i][1]) < FirstIndex(vals, top[j][1])
    /\ \A k \in 1..Len(vals) :
        (\A i \in 1..Len(top) : top[i][1] # vals[k]) =>
            \A i \in 1..Len(top) :
                CountIn(vals, vals[k]) = top[i][2] => FirstIndex(vals, top[i][1]) < k

\* C8 as stated: the route ranking (n = 10) and the ranking of the delay
\* reasons are rankings by count with equal counts in the order of first
\* appearance.
C8_RankingTiesByFirstAppearance ==
    /\ out.route.chart =>
        /\ Ranking(out.route.top, Column(out.route.subset, "Route"), TopRoutes)
        /\ TiesByFirstAppearance(out.route.top, Column(out.route.subset, "Route"))
    /\ out.delays.chart =>
        LET reasons == dropna(Column(out.delays.subset, "Reason for Delay"))
        IN  /\ Ranking(out.delays.top, reasons, Len(reasons))
            /\ TiesByFirstAppearance(out.delays.top, reasons)

\* C8 amended: at most n entries, each with the number of rows that hold
\* its value, counts never increasing, no value left out with a larger
\* count than a returned one; the order among equal counts is the one the
\* build's sort leaves, the order of first appearance where that sort is
\* stable.  With n = 2, [A,A,B,C,C,C] gives [(C,3),(A,2)] on every build.
C8_RankingByCount ==
    /\ out.route.chart =>
        /\ Ranking(out.route.top, Column(out.route.subset, "Route"), TopRoutes)
        /\ build.stableSort =>
            TiesByFirstAppearance(out.route.top, Column(out.route.subset, "Route"))
    /\ out.delays.chart =>
        LET reasons == dropna(Column(out.delays.subset, "Reason for Delay"))
        IN  /\ Ranking(out.delays.top, reasons, Len(reasons))
            /\ build.stableSort => TiesByFirstAppearance(out.delays.top, reasons)
    /\ \A b \in Builds :
        nlargest(value_counts(<<"A", "A", "B", "C", "C", "C">>, b), 2, b)
            = << <<"C", 3>>, <<"A", 2>> >>

\* more routes than the ranking holds, one of them travelled more than once
C8_MoreRoutesThanShown ==
    /\ out.route.chart
    /\ Cardinality({df[i].route : i \in 1..Len(df)}) > TopRoutes
    /\ Len(out.route.top) = TopRoutes
    /\ out.route.top[1][2] > 1

----------------------------------------------------------------------------
(* C9 *)

\* C9 as stated: every run of the script over a loaded table completes,
\* whatever the selectboxes show; an empty subset shows no chart and looks
\* up no top value in the route view and the delay view, and gives 0
\* journeys, 0 revenue and the average 0 in the KPI view.
C9_EveryRenderCompletes ==
    status # "not run" =>
        /\ status = "ok" /\ out.tabs = 5
        /\ out.route.subset = <<>> => ~out.route.chart /\ out.route.top = <<>>
        /\ out.delays.subset = <<>> => ~out.delays.chart /\ out.delays.top = <<>>
        /\ out.kpi.subset = <<>> =>
            /\ out.kpi.total_journeys = 0 /\ out.kpi.total_revenue = 0
            /\ out.kpi.avg_price = Number(0)

----------------------------------------------------------------------------
(* C10 *)

\* C10: after every run the script's df is the table load_data returned,
\* each view's subset is that whole table filtered by the view's own
\* selectboxes, and from one run of a session to the next the table is the
\* same.
C10_ViewsLeaveTableAlone ==
    /\ [](status \in Loaded =>
            /\ df = cache.table
            /\ out.kpi.subset = Matching(cache.table, SetCriteria(KpiKeys, sel))
            /\ out.tabs >= 2 =>
                out.route.subset = Matching(cache.table, SetCriteria(RouteKeys, sel))
            /\ out.tabs >= 4 =>
                out.delays.filtered = Matching(cache.table, SetCriteria(DelKeys, sel)))
    /\ [][(status \in Loaded /\ status' \in Loaded) => df' = df]_vars

\* the KPI view is narrowed to one class while the route view shows the other
C10_ViewsDisagree ==
    /\ status = "ok"
    /\ sel["kpi_class"] # "All" /\ sel["class_route"] \notin {"None", sel["kpi_class"]}
    /\ Len(out.kpi.subset) < Len(df)
    /\ out.route.subset # <<>>

====
